---- MODULE Spec2Model ----
(***************************************************************************)
(* Model of package attr (github.com/ssrathi/go-attr): runtime access to   *)
(* struct fields by name on top of Go's reflect library.                   *)
(*                                                                         *)
(* The state is the caller's heap of struct variables, the last call made  *)
(* on the package, what it returned, and the heap as it was when that call *)
(* was made (old).  Every public function is one                           *)
(* action; the reflect operations the functions rely on (ValueOf, Kind,    *)
(* Elem, FieldByName, Field, CanInterface, CanSet, Set, Tag.Get) are       *)
(* operators that follow the library's documented behaviour, including the *)
(* read-only flags of unexported fields and promotion through embedded     *)
(* structs.                                                                *)
(***************************************************************************)
EXTENDS Naturals, Sequences, FiniteSets, TLC

VARIABLES heap, old, call, ret, snap, decl0

vars == <<heap, old, call, ret, snap, decl0>>

\* Number of struct variables the caller owns.
NumObjs == 2

Addr == 1..NumObjs

----------------------------------------------------------------------------
\* Error values (attr.go, var block).  NoErr is Go's nil error; Panic is the
\* outcome of a run-time panic raised inside reflect.

NoErr == "nil"
ErrNoField == "ErrNoField"
ErrNotPtr == "ErrNotPtr"
ErrNotStruct == "ErrNotStruct"
ErrUnexportedField == "ErrUnexportedField"
ErrMismatchValue == "ErrMismatchValue"
Panic == "panic"

----------------------------------------------------------------------------
\* Types.  A struct type is the sequence of its field declarations, in
\* declaration order, as reflect.StructField describes them: Name, PkgPath
\* (empty iff the name is exported), Type, Tag and Anonymous (embedded).
\* A tag is the sequence of its key:"value" pairs.

FieldDecl(name, pkgPath, type, tag, anonymous) ==
    [Name |-> name, PkgPath |-> pkgPath, Type |-> type, Tag |-> tag,
     Anonymous |-> anonymous]

\* type User struct (attr_test.go)
UserFields ==
    << FieldDecl("Username", "", "string",
                 << <<"json", "username">>, <<"db", "uname">> >>, FALSE),
       FieldDecl("Age", "", "int",
                 << <<"json", "age">>, <<"meta", "important">> >>, FALSE),
       FieldDecl("password", "attr", "string", << >>, FALSE) >>

\* type Inner struct { ID int `json:"id"`; secret string }
InnerFields ==
    << FieldDecl("ID", "", "int", << <<"json", "id">> >>, FALSE),
       FieldDecl("secret", "attr", "string", << >>, FALSE) >>

\* type meta struct { Rev int `json:"rev"` }
MetaFields ==
    << FieldDecl("Rev", "", "int", << <<"json", "rev">> >>, FALSE) >>

\* type Profile struct { Inner; Score float64 `db:"score"`; meta }
ProfileFields ==
    << FieldDecl("Inner", "", "Inner", << >>, TRUE),
       FieldDecl("Score", "", "float64", << <<"db", "score">> >>, FALSE),
       FieldDecl("meta", "attr", "meta", << >>, TRUE) >>

\* type Node struct { *Inner; Data interface{} `json:"data"` }
NodeFields ==
    << FieldDecl("Inner", "", "*Inner", << >>, TRUE),
       FieldDecl("Data", "", "interface {}", << <<"json", "data">> >>, FALSE) >>

\* type sealed struct { secret string }: a struct without an exported field
SealedFields ==
    << FieldDecl("secret", "attr", "string", << >>, FALSE) >>

StructTypes == {"User", "Inner", "meta", "Profile", "Node", "sealed"}

StructFields(t) ==
    CASE t = "User" -> UserFields
      [] t = "Inner" -> InnerFields
      [] t = "meta" -> MetaFields
      [] t = "Profile" -> ProfileFields
      [] t = "Node" -> NodeFields
      [] t = "sealed" -> SealedFields
      [] OTHER -> << >>

PtrTypes == {"*User", "*Inner", "*Profile", "*Node", "**User", "*int"}

\* reflect.Type.Kind
TypeKind(t) ==
    CASE t \in StructTypes -> "struct"
      [] t \in PtrTypes -> "ptr"
      [] t = "interface {}" -> "interface"
      [] t = "[]int" -> "slice"
      [] t = "nil" -> "invalid"
      [] OTHER -> t

\* reflect.Type.Elem of a pointer type
TypeElem(t) ==
    CASE t = "*User" -> "User"
      [] t = "*Inner" -> "Inner"
      [] t = "*Profile" -> "Profile"
      [] t = "*Node" -> "Node"
      [] t = "**User" -> "*User"
      [] t = "*int" -> "int"
      [] OTHER -> "nil"

\* reflect.PointerTo, for the struct types
PointerTo(t) ==
    CASE t = "User" -> "*User"
      [] t = "Inner" -> "*Inner"
      [] t = "Profile" -> "*Profile"
      [] t = "Node" -> "*Node"
      [] OTHER -> "nil"

----------------------------------------------------------------------------
\* Values.  t is the dynamic type, v the payload of a scalar and f the
\* members: the fields of a struct, or the pointee of a non-nil pointer.

Scalar(t, v) == [t |-> t, v |-> v, f |-> << >>]
StructVal(t, fs) == [t |-> t, v |-> "struct", f |-> fs]
NilPtr(t) == [t |-> t, v |-> "nil", f |-> << >>]
PtrTo(t, pointee) == [t |-> t, v |-> "ptr", f |-> << pointee >>]

\* the nil interface value; reflect.TypeOf(nil) is the nil Type
NilValue == Scalar("nil", "nil")

\* reflect.TypeOf
TypeOf(x) == x.t

InnerVal == StructVal("Inner", << Scalar("int", "30"), Scalar("string", "s3cr3t") >>)

MetaVal == StructVal("meta", << Scalar("int", "30") >>)

\* The struct variables a caller may start with.
InitialStructs ==
    { StructVal("User", << Scalar("string", "srathi"), Scalar("int", "30"),
                           Scalar("string", "my_secret_123") >>),
      StructVal("Profile", << InnerVal, Scalar("float64", "1.5"), MetaVal >>),
      StructVal("Node", << PtrTo("*Inner", InnerVal), Scalar("int", "30") >>),
      StructVal("Node", << NilPtr("*Inner"), NilValue >>) }

\* Candidate new values: strings, ints, a float and nil.
NewValues ==
    { Scalar("string", "srathi"), Scalar("string", "new-srathi"),
      Scalar("int", "30"), Scalar("int", "40"),
      Scalar("float64", "40.5"), NilValue }

\* Field names a caller may ask for; "ABC" is declared nowhere.
FieldNames ==
    {"Username", "Age", "password", "Inner", "ID", "secret", "Score", "meta", "Rev",
     "Data", "ABC"}

TagKeys == {"json", "db"}

\* What a caller may pass as obj: a struct by value, a pointer to a struct,
\* and inputs that are neither.
Objs ==
    { [kind |-> k, addr |-> a] : k \in {"Struct", "Ptr"}, a \in Addr }
    \cup { [kind |-> k, addr |-> 0] :
              k \in {"PtrPtr", "NilPtr", "PtrInt", "Int", "Slice", "Sealed", "Nil"} }

----------------------------------------------------------------------------
\* reflect.Type.FieldByName: the field a name selects in struct type t, looked
\* up breadth first through embedded structs as Go's selector rules require.
\* A name found twice at the shallowest depth where it occurs selects nothing.

NoField == [found |-> FALSE, Index |-> << >>, field |-> FieldDecl("", "", "nil", << >>, FALSE)]

\* the struct type an embedded field of type T or *T embeds, "nil" if none
EmbeddedStruct(decl) ==
    LET ntyp == IF TypeKind(decl.Type) = "ptr" THEN TypeElem(decl.Type) ELSE decl.Type
    IN  IF decl.Anonymous /\ TypeKind(ntyp) = "struct" THEN ntyp ELSE "nil"

RECURSIVE FieldByNameFunc(_, _, _)
FieldByNameFunc(current, visited, name) ==
    LET live == { scan \in current : scan.typ \notin visited }
        fields == UNION { { <<scan, i>> : i \in 1..Len(StructFields(scan.typ)) }
                          : scan \in live }
        matches == { m \in fields : StructFields(m[1].typ)[m[2]].Name = name }
        queued == { q \in fields :
                       EmbeddedStruct(StructFields(q[1].typ)[q[2]]) # "nil" }
        styp(q) == EmbeddedStruct(StructFields(q[1].typ)[q[2]])
        next == { [typ |-> t,
                   index |-> LET q == CHOOSE q \in queued : styp(q) = t
                             IN  Append(q[1].index, q[2]),
                   multi |-> \/ Cardinality({q \in queued : styp(q) = t}) > 1
                             \/ \E q \in queued : styp(q) = t /\ q[1].multi]
                 : t \in { styp(q) : q \in queued } }
    IN  IF live = {} THEN NoField
        ELSE IF matches # {}
        THEN IF Cardinality(matches) > 1 \/ (\E m \in matches : m[1].multi)
             THEN NoField
             ELSE LET m == CHOOSE m \in matches : TRUE
                  IN  [found |-> TRUE, Index |-> Append(m[1].index, m[2]),
                       field |-> StructFields(m[1].typ)[m[2]]]
        ELSE FieldByNameFunc(next, visited \cup { scan.typ : scan \in live }, name)

TypeFieldByName(t, name) ==
    LET fs == StructFields(t)
        top == { i \in 1..Len(fs) : fs[i].Name = name }
    IN  IF name # "" /\ top # {}
        THEN LET i == CHOOSE i \in top : \A j \in top : i <= j
             IN  [found |-> TRUE, Index |-> << i >>, field |-> fs[i]]
        ELSE IF \A i \in 1..Len(fs) : ~fs[i].Anonymous
        THEN NoField
        ELSE FieldByNameFunc({[typ |-> t, index |-> << >>, multi |-> FALSE]}, {}, name)

----------------------------------------------------------------------------
\* reflect.Value.  val is the value held, typ its static type (the declared
\* type for a field), ro the read-only flags (flagStickyRO, flagEmbedRO) a
\* Value gets when it was reached through an unexported field, addr whether
\* it is addressable, base/path the place it occupies in the heap (base 0:
\* none, the Value is a copy), ref the heap variable a pointer points to.

ZeroValue ==
    [valid |-> FALSE, panic |-> FALSE, val |-> NilValue, typ |-> "nil",
     ro |-> {}, addr |-> FALSE, base |-> 0, path |-> << >>, ref |-> 0]

\* the outcome of a reflect call that panics
PanicValue == [ZeroValue EXCEPT !.panic = TRUE]

\* the Go value the caller passes for obj
ArgValue(obj) ==
    CASE obj.kind = "Struct" -> heap[obj.addr]
      [] obj.kind = "Ptr" -> PtrTo(PointerTo(heap[obj.addr].t), heap[obj.addr])
      [] obj.kind = "PtrPtr" ->
            PtrTo("**User", PtrTo("*User", StructVal("User",
                << Scalar("string", "srathi"), Scalar("int", "30"),
                   Scalar("string", "my_secret_123") >>)))
      [] obj.kind = "NilPtr" -> NilPtr("*User")
      [] obj.kind = "PtrInt" -> PtrTo("*int", Scalar("int", "30"))
      [] obj.kind = "Int" -> Scalar("int", "30")
      [] obj.kind = "Slice" -> Scalar("[]int", "30")
      [] obj.kind = "Sealed" -> StructVal("sealed", << Scalar("string", "my_secret_123") >>)
      [] OTHER -> NilValue

\* reflect.ValueOf: the zero Value for nil, else a Value that is a copy
ValueOf(x, ref) ==
    IF x = NilValue THEN ZeroValue
    ELSE [valid |-> TRUE, panic |-> FALSE, val |-> x, typ |-> x.t, ro |-> {},
          addr |-> FALSE, base |-> 0, path |-> << >>, ref |-> ref]

ValueOfObj(obj) == ValueOf(ArgValue(obj), IF obj.kind = "Ptr" THEN obj.addr ELSE 0)

\* a Kind that looks at the value held, not at the static type
Kind_Dynamic(v) == IF v.valid THEN TypeKind(v.val.t) ELSE "invalid"

\* reflect.Value.Kind; Invalid for the zero Value
Kind(v) == IF v.valid THEN TypeKind(v.typ) ELSE "invalid"

\* reflect.Value.Elem of a pointer: the zero Value for a nil pointer, else
\* the addressable pointee, which keeps the read-only flags
Elem(v) ==
    IF v.val.v = "nil" THEN ZeroValue
    ELSE [valid |-> TRUE, panic |-> FALSE, val |-> v.val.f[1],
          typ |-> TypeElem(v.typ), ro |-> v.ro, addr |-> TRUE,
          base |-> IF v.ref # 0 THEN v.ref ELSE v.base,
          path |-> IF v.ref # 0 THEN << >> ELSE Append(v.path, 1),
          ref |-> 0]

\* reflect.Value.Field(i) of a struct: inherits flagStickyRO and the
\* addressability; an unexported field adds flagEmbedRO when embedded and
\* flagStickyRO otherwise
Field(v, i) ==
    LET decl == StructFields(v.typ)[i]
    IN  [valid |-> TRUE, panic |-> FALSE, val |-> v.val.f[i], typ |-> decl.Type,
         ro |-> (v.ro \cap {"flagStickyRO"}) \cup
                (IF decl.PkgPath = "" THEN {}
                 ELSE IF decl.Anonymous THEN {"flagEmbedRO"} ELSE {"flagStickyRO"}),
         addr |-> v.addr, base |-> v.base, path |-> Append(v.path, i), ref |-> 0]

\* reflect.Value.FieldByIndex: panics when it has to go through a nil
\* pointer to an embedded struct
RECURSIVE FieldByIndexFrom(_, _, _)
FieldByIndexFrom(v, index, first) ==
    IF index = << >> THEN v
    ELSE IF ~first /\ Kind(v) = "ptr" /\ TypeKind(TypeElem(v.typ)) = "struct"
    THEN IF v.val.v = "nil" THEN PanicValue
         ELSE FieldByIndexFrom(Field(Elem(v), Head(index)), Tail(index), FALSE)
    ELSE FieldByIndexFrom(Field(v, Head(index)), Tail(index), FALSE)

FieldByIndex(v, index) == FieldByIndexFrom(v, index, TRUE)

\* reflect.Value.FieldByName: the zero Value if the name selects no field
FieldByName(v, name) ==
    LET f == TypeFieldByName(v.typ, name)
    IN  IF f.found THEN FieldByIndex(v, f.Index) ELSE ZeroValue

\* a validity test that takes the zero Value for a field
IsValid_Always(v) == TRUE

IsValid(v) == v.valid

\* a visibility test that ignores the read-only flags
CanInterface_Always(v) == TRUE

CanInterface(v) == v.ro = {}

\* a settability test that looks at addressability alone
CanSet_AddrOnly(v) == v.addr

CanSet(v) == v.addr /\ v.ro = {}

\* an Interface that hands out the field itself where it has an address,
\* not a copy of what it holds
Interface_Live(v) ==
    IF v.addr THEN [t |-> "ref", v |-> "ref", f |-> << v.base >> \o v.path]
    ELSE v.val

\* reflect.Value.Interface: the value held; for a field of interface type
\* that is the dynamic value stored in the interface
Interface(v) == v.val

\* reflect.Value.NumField
NumField(v) == Len(StructFields(v.typ))

\* reflect.StructTag.Get: the value of the first pair with the key, "" if none
RECURSIVE TagGet(_, _)
TagGet(tag, key) ==
    IF tag = << >> THEN ""
    ELSE IF Head(tag)[1] = key THEN Head(tag)[2]
    ELSE TagGet(Tail(tag), key)

\* the value x with the member at path replaced by new
RECURSIVE SetAt(_, _, _)
SetAt(x, path, new) ==
    IF path = << >> THEN new
    ELSE [x EXCEPT !.f[Head(path)] = SetAt(@, Tail(path), new)]

\* an assignment that reaches every record of the same type
HeapAfterSet_SameType(v, new) ==
    [a \in Addr |-> IF heap[a].t = heap[v.base].t THEN SetAt(heap[a], v.path, new)
                    ELSE heap[a]]

\* an assignment that is lost
HeapAfterSet_NoWrite(v, new) == heap

\* reflect.Value.Set on a settable Value: the heap after the assignment
HeapAfterSet(v, new) == [heap EXCEPT ![v.base] = SetAt(@, v.path, new)]

----------------------------------------------------------------------------
\* Package attr.  Each function is an operator giving what the call returns
\* (and, for SetValue, the heap it leaves), evaluated on the current heap.

Result(err, value, found, names, map, str) ==
    [err |-> err, value |-> value, found |-> found, names |-> names,
     map |-> map, str |-> str]

NoRet == Result(NoErr, NilValue, FALSE, << >>, << >>, "")

Fail(err) == [NoRet EXCEPT !.err = err]

\* a normalizer that follows pointers as far as they go
RECURSIVE Indirect(_)
Indirect(v) == IF Kind(v) = "ptr" THEN Indirect(Elem(v)) ELSE v

getReflectValue_Deep(obj) ==
    LET value == Indirect(ValueOfObj(obj))
    IN  IF Kind(value) = "struct"
        THEN [value |-> value, err |-> NoErr]
        ELSE [value |-> ZeroValue, err |-> ErrNotStruct]

\* a normalizer that takes pointers only
getReflectValue_PtrOnly(obj) ==
    LET value == ValueOfObj(obj)
    IN  IF Kind(value) = "ptr" /\ Kind(Elem(value)) = "struct"
        THEN [value |-> Elem(value), err |-> NoErr]
        ELSE [value |-> ZeroValue, err |-> ErrNotStruct]

getReflectValue(obj) ==
    LET value == ValueOfObj(obj)
    IN  IF Kind(value) = "struct"
        THEN [value |-> value, err |-> NoErr]
        ELSE IF Kind(value) = "ptr" /\ Kind(Elem(value)) = "struct"
        THEN [value |-> Elem(value), err |-> NoErr]
        ELSE [value |-> ZeroValue, err |-> ErrNotStruct]

GetValue(obj, fieldName) ==
    LET r == getReflectValue(obj)
        fieldValue == FieldByName(r.value, fieldName)
    IN  IF r.err # NoErr THEN Fail(r.err)
        ELSE IF fieldValue.panic THEN Fail(Panic)
        ELSE IF ~IsValid(fieldValue) THEN Fail(ErrNoField)
        ELSE IF ~CanInterface(fieldValue) THEN Fail(ErrUnexportedField)
        ELSE [NoRet EXCEPT !.value = Interface(fieldValue)]

Has(obj, fieldName) ==
    LET r == getReflectValue(obj)
    IN  IF r.err # NoErr THEN Fail(r.err)
        ELSE [NoRet EXCEPT !.found = TypeFieldByName(r.value.typ, fieldName).found]

\* a type check that also turns down the value the field already holds
MismatchValue_Same(fieldValue, newValue) ==
    \/ fieldValue.typ # TypeOf(newValue)
    \/ fieldValue.val = newValue

\* a type check that lets a number of another numeric type through
MismatchValue_Numeric(fieldValue, newValue) ==
    /\ fieldValue.typ # TypeOf(newValue)
    /\ ~({fieldValue.typ, TypeOf(newValue)} \subseteq {"int", "float64"})

\* the type check of SetValue: the field's type against the value's type
MismatchValue(fieldValue, newValue) == fieldValue.typ # TypeOf(newValue)

\* a pointer check that lets a struct passed by value through
NotPtr_StructToo(objValue) == Kind(objValue) \notin {"ptr", "struct"}

\* the pointer check of SetValue
NotPtr(objValue) == Kind(objValue) # "ptr"

\* a SetValue that assigns before it asks whether the field may be set
SetValue_SetFirst(obj, fieldName, newValue) ==
    LET objValue == ValueOfObj(obj)
        elem == Elem(objValue)
        fieldValue == FieldByName(elem, fieldName)
        same(err) == [err |-> err, heap |-> heap]
    IN  IF NotPtr(objValue) THEN same(ErrNotPtr)
        ELSE IF Kind(elem) # "struct" THEN same(ErrNotStruct)
        ELSE IF fieldValue.panic THEN same(Panic)
        ELSE IF ~IsValid(fieldValue) THEN same(ErrNoField)
        ELSE IF MismatchValue(fieldValue, newValue) THEN same(ErrMismatchValue)
        ELSE IF ~CanSet(fieldValue)
        THEN [err |-> ErrUnexportedField, heap |-> HeapAfterSet(fieldValue, newValue)]
        ELSE [err |-> NoErr, heap |-> HeapAfterSet(fieldValue, newValue)]

\* a SetValue that normalizes obj with getReflectValue before its pointer check
SetValue_Normalized(obj, fieldName, newValue) ==
    LET objValue == ValueOfObj(obj)
        elem == Elem(objValue)
        fieldValue == FieldByName(elem, fieldName)
        same(err) == [err |-> err, heap |-> heap]
    IN  IF getReflectValue(obj).err # NoErr THEN same(getReflectValue(obj).err)
        ELSE IF NotPtr(objValue) THEN same(ErrNotPtr)
        ELSE IF fieldValue.panic THEN same(Panic)
        ELSE IF ~IsValid(fieldValue) THEN same(ErrNoField)
        ELSE IF MismatchValue(fieldValue, newValue) THEN same(ErrMismatchValue)
        ELSE IF ~CanSet(fieldValue) THEN same(ErrUnexportedField)
        ELSE [err |-> NoErr, heap |-> HeapAfterSet(fieldValue, newValue)]

\* a SetValue that compares the types before it looks whether the field exists
SetValue_TypeFirst(obj, fieldName, newValue) ==
    LET objValue == ValueOfObj(obj)
        elem == Elem(objValue)
        fieldValue == FieldByName(elem, fieldName)
        same(err) == [err |-> err, heap |-> heap]
    IN  IF NotPtr(objValue) THEN same(ErrNotPtr)
        ELSE IF Kind(elem) # "struct" THEN same(ErrNotStruct)
        ELSE IF fieldValue.panic THEN same(Panic)
        ELSE IF MismatchValue(fieldValue, newValue) THEN same(ErrMismatchValue)
        ELSE IF ~IsValid(fieldValue) THEN same(ErrNoField)
        ELSE IF ~CanSet(fieldValue) THEN same(ErrUnexportedField)
        ELSE [err |-> NoErr, heap |-> HeapAfterSet(fieldValue, newValue)]

SetValue(obj, fieldName, newValue) ==
    LET objValue == ValueOfObj(obj)
        elem == Elem(objValue)
        fieldValue == FieldByName(elem, fieldName)
        same(err) == [err |-> err, heap |-> heap]
    IN  IF NotPtr(objValue) THEN same(ErrNotPtr)
        ELSE IF Kind(elem) # "struct" THEN same(ErrNotStruct)
        ELSE IF fieldValue.panic THEN same(Panic)
        ELSE IF ~IsValid(fieldValue) THEN same(ErrNoField)
        ELSE IF MismatchValue(fieldValue, newValue) THEN same(ErrMismatchValue)
        ELSE IF ~CanSet(fieldValue) THEN same(ErrUnexportedField)
        ELSE [err |-> NoErr, heap |-> HeapAfterSet(fieldValue, newValue)]

\* a loop that looks at what a field holds: it leaves out an int field holding 40
RECURSIVE NamesFrom_ByValue(_, _, _)
NamesFrom_ByValue(objValue, i, fieldNames) ==
    IF i > NumField(objValue) THEN fieldNames
    ELSE NamesFrom_ByValue(objValue, i + 1,
            IF /\ CanInterface(Field(objValue, i))
               /\ Interface(Field(objValue, i)) # Scalar("int", "40")
            THEN Append(fieldNames, StructFields(objValue.typ)[i].Name)
            ELSE fieldNames)

\* a loop that puts each name in front of the ones before it
RECURSIVE NamesFrom_Prepend(_, _, _)
NamesFrom_Prepend(objValue, i, fieldNames) ==
    IF i > NumField(objValue) THEN fieldNames
    ELSE NamesFrom_Prepend(objValue, i + 1,
            IF CanInterface(Field(objValue, i))
            THEN << StructFields(objValue.typ)[i].Name >> \o fieldNames
            ELSE fieldNames)

\* the loop of Names over fields i..NumField
RECURSIVE NamesFrom(_, _, _)
NamesFrom(objValue, i, fieldNames) ==
    IF i > NumField(objValue) THEN fieldNames
    ELSE NamesFrom(objValue, i + 1,
            IF CanInterface(Field(objValue, i))
            THEN Append(fieldNames, StructFields(objValue.typ)[i].Name)
            ELSE fieldNames)

Names(obj) ==
    LET r == getReflectValue(obj)
    IN  IF r.err # NoErr THEN Fail(r.err)
        ELSE [NoRet EXCEPT !.names = NamesFrom(r.value, 1, << >>)]

\* a loop that does not filter on visibility
RECURSIVE ValuesFrom_All(_, _, _)
ValuesFrom_All(objValue, i, valueMap) ==
    IF i > NumField(objValue) THEN valueMap
    ELSE ValuesFrom_All(objValue, i + 1,
            (StructFields(objValue.typ)[i].Name :> Interface(Field(objValue, i)))
            @@ valueMap)

\* the loop of Values over fields i..NumField
RECURSIVE ValuesFrom(_, _, _)
ValuesFrom(objValue, i, valueMap) ==
    IF i > NumField(objValue) THEN valueMap
    ELSE ValuesFrom(objValue, i + 1,
            IF CanInterface(Field(objValue, i))
            THEN (StructFields(objValue.typ)[i].Name :> Interface(Field(objValue, i)))
                 @@ valueMap
            ELSE valueMap)

Values(obj) ==
    LET r == getReflectValue(obj)
    IN  IF r.err # NoErr THEN Fail(r.err)
        ELSE [NoRet EXCEPT !.map = ValuesFrom(r.value, 1, << >>)]

\* a GetTag that does not look at the visibility of the field
GetTag_NoVisibility(obj, fieldName, tagKey) ==
    LET r == getReflectValue(obj)
        f == TypeFieldByName(r.value.typ, fieldName)
    IN  IF r.err # NoErr THEN Fail(r.err)
        ELSE IF ~f.found THEN Fail(ErrNoField)
        ELSE [NoRet EXCEPT !.str = TagGet(f.field.Tag, tagKey)]

GetTag(obj, fieldName, tagKey) ==
    LET r == getReflectValue(obj)
        f == TypeFieldByName(r.value.typ, fieldName)
    IN  IF r.err # NoErr THEN Fail(r.err)
        ELSE IF ~f.found THEN Fail(ErrNoField)
        ELSE IF f.field.PkgPath # "" THEN Fail(ErrUnexportedField)
        ELSE [NoRet EXCEPT !.str = TagGet(f.field.Tag, tagKey)]

\* a loop that leaves out the fields without the tag
RECURSIVE TagsFrom_OmitEmpty(_, _, _, _)
TagsFrom_OmitEmpty(objValue, tagKey, i, tagMap) ==
    IF i > NumField(objValue) THEN tagMap
    ELSE TagsFrom_OmitEmpty(objValue, tagKey, i + 1,
            IF /\ CanInterface(Field(objValue, i))
               /\ TagGet(StructFields(objValue.typ)[i].Tag, tagKey) # ""
            THEN (StructFields(objValue.typ)[i].Name :>
                    TagGet(StructFields(objValue.typ)[i].Tag, tagKey))
                 @@ tagMap
            ELSE tagMap)

\* the loop of Tags over fields i..NumField
RECURSIVE TagsFrom(_, _, _, _)
TagsFrom(objValue, tagKey, i, tagMap) ==
    IF i > NumField(objValue) THEN tagMap
    ELSE TagsFrom(objValue, tagKey, i + 1,
            IF CanInterface(Field(objValue, i))
            THEN (StructFields(objValue.typ)[i].Name :>
                    TagGet(StructFields(objValue.typ)[i].Tag, tagKey))
                 @@ tagMap
            ELSE tagMap)

Tags(obj, tagKey) ==
    LET r == getReflectValue(obj)
    IN  IF r.err # NoErr THEN Fail(r.err)
        ELSE [NoRet EXCEPT !.map = TagsFrom(r.value, tagKey, 1, << >>)]

GetKind(obj, fieldName) ==
    LET r == getReflectValue(obj)
        fieldValue == FieldByName(r.value, fieldName)
    IN  IF r.err # NoErr THEN Fail(r.err)
        ELSE IF fieldValue.panic THEN Fail(Panic)
        ELSE IF ~IsValid(fieldValue) THEN Fail(ErrNoField)
        ELSE IF ~CanInterface(fieldValue) THEN Fail(ErrUnexportedField)
        ELSE [NoRet EXCEPT !.str = Kind(fieldValue)]

\* a loop that takes the kind of what a field holds, not of the field
RECURSIVE KindsFrom_Dynamic(_, _, _)
KindsFrom_Dynamic(objValue, i, kindMap) ==
    IF i > NumField(objValue) THEN kindMap
    ELSE KindsFrom_Dynamic(objValue, i + 1,
            IF CanInterface(Field(objValue, i))
            THEN (StructFields(objValue.typ)[i].Name :> Kind_Dynamic(Field(objValue, i)))
                 @@ kindMap
            ELSE kindMap)

\* the loop of Kinds over fields i..NumField
RECURSIVE KindsFrom(_, _, _)
KindsFrom(objValue, i, kindMap) ==
    IF i > NumField(objValue) THEN kindMap
    ELSE KindsFrom(objValue, i + 1,
            IF CanInterface(Field(objValue, i))
            THEN (StructFields(objValue.typ)[i].Name :> Kind(Field(objValue, i)))
                 @@ kindMap
            ELSE kindMap)

\* a Kinds that gives up at a field it may not read, as GetKind does
Kinds_Strict(obj) ==
    LET r == getReflectValue(obj)
    IN  IF r.err # NoErr THEN Fail(r.err)
        ELSE IF \E i \in 1..NumField(r.value) : ~CanInterface(Field(r.value, i))
        THEN Fail(ErrUnexportedField)
        ELSE [NoRet EXCEPT !.map = KindsFrom(r.value, 1, << >>)]

Kinds(obj) ==
    LET r == getReflectValue(obj)
    IN  IF r.err # NoErr THEN Fail(r.err)
        ELSE [NoRet EXCEPT !.map = KindsFrom(r.value, 1, << >>)]

----------------------------------------------------------------------------
\* The caller: it makes one call at a time on its struct variables, looks at
\* what the call returned, and goes on to the next call.

Call(op, obj, fieldName, newValue, tagKey) ==
    [op |-> op, obj |-> obj, fieldName |-> fieldName, newValue |-> newValue,
     tagKey |-> tagKey]

NoCall == Call("none", [kind |-> "Nil", addr |-> 0], "", NilValue, "")

\* the caller has kept no map returned by Values
NoSnap == [addr |-> 0, map |-> << >>, at |-> NilValue]

\* the caller has not noted what the declaration-reading operations return
NoDecl == << >>

Init ==
    /\ heap \in [Addr -> InitialStructs]
    /\ old = heap
    /\ call = NoCall
    /\ ret = NoRet
    /\ snap = NoSnap
    /\ decl0 = NoDecl

CallGetValue ==
    /\ call = NoCall
    /\ \E obj \in Objs, fieldName \in FieldNames :
          /\ call' = Call("GetValue", obj, fieldName, NilValue, "")
          /\ ret' = GetValue(obj, fieldName)
    /\ old' = heap
    /\ UNCHANGED <<heap, snap, decl0>>

CallHas ==
    /\ call = NoCall
    /\ \E obj \in Objs, fieldName \in FieldNames :
          /\ call' = Call("Has", obj, fieldName, NilValue, "")
          /\ ret' = Has(obj, fieldName)
    /\ old' = heap
    /\ UNCHANGED <<heap, snap, decl0>>

CallSetValue ==
    /\ call = NoCall
    /\ \E obj \in Objs, fieldName \in FieldNames, newValue \in NewValues :
          LET r == SetValue(obj, fieldName, newValue)
          IN  /\ call' = Call("SetValue", obj, fieldName, newValue, "")
              /\ ret' = Fail(r.err)
              /\ heap' = r.heap
    /\ old' = heap
    /\ UNCHANGED <<snap, decl0>>

CallNames ==
    /\ call = NoCall
    /\ \E obj \in Objs :
          /\ call' = Call("Names", obj, "", NilValue, "")
          /\ ret' = Names(obj)
    /\ old' = heap
    /\ UNCHANGED <<heap, snap, decl0>>

CallValues ==
    /\ call = NoCall
    /\ \E obj \in Objs :
          /\ call' = Call("Values", obj, "", NilValue, "")
          /\ ret' = Values(obj)
    /\ old' = heap
    /\ UNCHANGED <<heap, snap, decl0>>

CallGetTag ==
    /\ call = NoCall
    /\ \E obj \in Objs, fieldName \in FieldNames, tagKey \in TagKeys :
          /\ call' = Call("GetTag", obj, fieldName, NilValue, tagKey)
          /\ ret' = GetTag(obj, fieldName, tagKey)
    /\ old' = heap
    /\ UNCHANGED <<heap, snap, decl0>>

CallTags ==
    /\ call = NoCall
    /\ \E obj \in Objs, tagKey \in TagKeys :
          /\ call' = Call("Tags", obj, "", NilValue, tagKey)
          /\ ret' = Tags(obj, tagKey)
    /\ old' = heap
    /\ UNCHANGED <<heap, snap, decl0>>

CallGetKind ==
    /\ call = NoCall
    /\ \E obj \in Objs, fieldName \in FieldNames :
          /\ call' = Call("GetKind", obj, fieldName, NilValue, "")
          /\ ret' = GetKind(obj, fieldName)
    /\ old' = heap
    /\ UNCHANGED <<heap, snap, decl0>>

CallKinds ==
    /\ call = NoCall
    /\ \E obj \in Objs :
          /\ call' = Call("Kinds", obj, "", NilValue, "")
          /\ ret' = Kinds(obj)
    /\ old' = heap
    /\ UNCHANGED <<heap, snap, decl0>>

\* the caller is done with the result of the last call
Return ==
    /\ call # NoCall
    /\ call' = NoCall
    /\ ret' = NoRet
    /\ old' = heap
    /\ UNCHANGED <<heap, snap, decl0>>

Next ==
    \/ CallGetValue
    \/ CallHas
    \/ CallSetValue
    \/ CallNames
    \/ CallValues
    \/ CallGetTag
    \/ CallTags
    \/ CallGetKind
    \/ CallKinds
    \/ Return

Spec == Init /\ [][Next]_vars

-----------------------------------------------------------------------------
\* A caller that keeps the map one call of Values on &R returned, then writes
\* to R with SetValue and reads R again with Values.  snap holds the map
\* kept, the struct variable it was taken from and the record as it was then.

KeepValues ==
    /\ call = NoCall
    /\ snap = NoSnap
    /\ \E a \in Addr :
          LET obj == [kind |-> "Ptr", addr |-> a]
          IN  /\ call' = Call("Values", obj, "", NilValue, "")
              /\ ret' = Values(obj)
              /\ snap' = [addr |-> a, map |-> Values(obj).map, at |-> heap[a]]
    /\ old' = heap
    /\ UNCHANGED <<heap, decl0>>

LaterSetValue ==
    /\ call = NoCall
    /\ snap # NoSnap
    /\ \E fieldName \in FieldNames, newValue \in NewValues :
          LET obj == [kind |-> "Ptr", addr |-> snap.addr]
              r == SetValue(obj, fieldName, newValue)
          IN  /\ call' = Call("SetValue", obj, fieldName, newValue, "")
              /\ ret' = Fail(r.err)
              /\ heap' = r.heap
    /\ old' = heap
    /\ UNCHANGED <<snap, decl0>>

FreshValues ==
    /\ call = NoCall
    /\ snap # NoSnap
    /\ LET obj == [kind |-> "Ptr", addr |-> snap.addr]
       IN  /\ call' = Call("Values", obj, "", NilValue, "")
           /\ ret' = Values(obj)
    /\ old' = heap
    /\ UNCHANGED <<heap, snap, decl0>>

SnapNext ==
    \/ KeepValues
    \/ LaterSetValue
    \/ FreshValues
    \/ Return

SnapSpec == Init /\ [][SnapNext]_vars

----------------------------------------------------------------------------
\* Vocabulary of the properties, read off the struct declarations alone.

\* the obj arguments that denote a struct: by value or by pointer
RecordObjs == { o \in Objs : o.kind \in {"Struct", "Ptr"} }

\* the declarations of the struct variable obj denotes
Decls(o) == StructFields(heap[o.addr].t)

\* the positions of the fields called name that o's struct type declares
Declared(o, name) == { i \in 1..Len(Decls(o)) : Decls(o)[i].Name = name }

Visible(d) == d.PkgPath = ""

\* the visible fields of o's struct type, in declaration order
VisibleDecls(o) == SelectSeq(Decls(o), Visible)

VisibleNames(o) == { Decls(o)[i].Name : i \in { j \in 1..Len(Decls(o)) : Visible(Decls(o)[j]) } }

\* every name declared by struct type t or by a struct it embeds, at any depth
RECURSIVE NamesWithin(_)
NamesWithin(t) ==
    { StructFields(t)[i].Name : i \in 1..Len(StructFields(t)) }
    \cup UNION { NamesWithin(EmbeddedStruct(StructFields(t)[i]))
                 : i \in { j \in 1..Len(StructFields(t)) :
                             EmbeddedStruct(StructFields(t)[j]) # "nil" } }

Ok(value) == [NoRet EXCEPT !.value = value]

----------------------------------------------------------------------------
\* C1: round trip.  After SetValue(&R, F, V), where F is a visible field
\* declared by R's type and V's type is exactly F's declared type, the call
\* has returned no error and GetValue(&R, F) on the heap it left returns V.
C1_RoundTrip ==
    (call.op = "SetValue" /\ call.obj.kind = "Ptr") =>
        \A i \in Declared(call.obj, call.fieldName) :
            (Visible(Decls(call.obj)[i]) /\ TypeOf(call.newValue) = Decls(call.obj)[i].Type)
            => /\ ret.err = NoErr
               /\ GetValue(call.obj, call.fieldName) = Ok(call.newValue)

\* a write that changed the record: Age of a User set from 30 to 40
C1_Witness ==
    /\ call.op = "SetValue" /\ call.obj.kind = "Ptr"
    /\ call.fieldName = "Age" /\ call.newValue = Scalar("int", "40")
    /\ "Age" \in VisibleNames(call.obj)
    /\ old[call.obj.addr].f[2] = Scalar("int", "30")
    /\ ret.err = NoErr

\* C2: exact-type rule.  SetValue(&R, F, V) on a declared field F (visible
\* or hidden) with a V whose type is not F's declared type (a float for an
\* int field, nil, a concrete value for an interface field) returns
\* ErrMismatchValue and F holds the value it held before.
C2_ExactType ==
    (call.op = "SetValue" /\ call.obj.kind = "Ptr") =>
        \A i \in Declared(call.obj, call.fieldName) :
            TypeOf(call.newValue) # Decls(call.obj)[i].Type
            => /\ ret.err = ErrMismatchValue
               /\ heap[call.obj.addr].f[i] = old[call.obj.addr].f[i]

\* the float 40.5 offered to the int field Age
C2_Witness ==
    /\ call.op = "SetValue" /\ call.obj.kind = "Ptr"
    /\ call.fieldName = "Age" /\ call.newValue = Scalar("float64", "40.5")
    /\ Declared(call.obj, "Age") # {}
    /\ ret.err = ErrMismatchValue

\* nil offered to a field, and a concrete int offered to the interface field
C2_WitnessNil ==
    /\ call.op = "SetValue" /\ call.obj.kind = "Ptr"
    /\ call.newValue = NilValue /\ Declared(call.obj, call.fieldName) # {}
    /\ ret.err = ErrMismatchValue

C2_WitnessInterface ==
    /\ call.op = "SetValue" /\ call.obj.kind = "Ptr"
    /\ call.fieldName = "Data" /\ call.newValue = Scalar("int", "40")
    /\ Declared(call.obj, "Data") # {}
    /\ ret.err = ErrMismatchValue

\* C3: not addressable.  SetValue(R, F, V) with the struct passed by value
\* returns ErrNotPtr whatever F and V are, and no struct variable of the
\* caller has changed.
C3_NotAddressable ==
    (call.op = "SetValue" /\ call.obj.kind = "Struct") =>
        (ret.err = ErrNotPtr /\ heap = old)

\* a by-value call that would have been a valid write through a pointer
C3_Witness ==
    /\ call.op = "SetValue" /\ call.obj.kind = "Struct"
    /\ call.fieldName = "Username" /\ call.newValue = Scalar("string", "new-srathi")
    /\ "Username" \in VisibleNames(call.obj)
    /\ ret.err = ErrNotPtr

\* C4 as stated: SetValue(&R, F, V) on a hidden field F declared by R's type
\* returns ErrUnexportedField whatever the type of V, and F keeps its value.
C4_HiddenAnyValue ==
    (call.op = "SetValue" /\ call.obj.kind = "Ptr") =>
        \A i \in Declared(call.obj, call.fieldName) :
            ~Visible(Decls(call.obj)[i])
            => /\ ret.err = ErrUnexportedField
               /\ heap[call.obj.addr].f[i] = old[call.obj.addr].f[i]

\* C4 amended: SetValue(&R, F, V) on a hidden field F declared by R's type
\* returns ErrUnexportedField when V's type is F's declared type and
\* ErrMismatchValue when it is not (the type is checked before the
\* visibility); in both cases F keeps its value.
C4_HiddenTypedValue ==
    (call.op = "SetValue" /\ call.obj.kind = "Ptr") =>
        \A i \in Declared(call.obj, call.fieldName) :
            ~Visible(Decls(call.obj)[i])
            => /\ ret.err = IF TypeOf(call.newValue) = Decls(call.obj)[i].Type
                            THEN ErrUnexportedField ELSE ErrMismatchValue
               /\ heap[call.obj.addr].f[i] = old[call.obj.addr].f[i]

\* a string offered to the hidden string field password
C4_Witness ==
    /\ call.op = "SetValue" /\ call.obj.kind = "Ptr"
    /\ call.fieldName = "password" /\ TypeOf(call.newValue) = "string"
    /\ Declared(call.obj, "password") # {}
    /\ ret.err = ErrUnexportedField

\* C5: whatever calls came before, GetValue(R, F) returns, for every struct
\* variable R passed by value or by pointer and every visible field F
\* declared by R's type, no error and the value F holds in R.
C5_GetCurrentValue ==
    (call.op = "GetValue" /\ call.obj \in RecordObjs) =>
        \A i \in Declared(call.obj, call.fieldName) :
            Visible(Decls(call.obj)[i]) => ret = Ok(heap[call.obj.addr].f[i])

\* a read of Age after a write has changed it to 40
C5_Witness ==
    /\ call.op = "GetValue" /\ call.obj \in RecordObjs
    /\ call.fieldName = "Age" /\ "Age" \in VisibleNames(call.obj)
    /\ heap[call.obj.addr].f[2] = Scalar("int", "40")
    /\ ret = Ok(Scalar("int", "40"))

C7_HiddenField ==
    ( /\ call.op \in {"Has", "GetValue"} /\ call.obj \in RecordObjs
      /\ \E i \in Declared(call.obj, call.fieldName) : ~Visible(Decls(call.obj)[i]) ) =>
        /\ call.op = "Has" => ret = [NoRet EXCEPT !.found = TRUE]
        /\ call.op = "GetValue" => ret = Fail(ErrUnexportedField)

\* GetValue of the hidden field password, which Has reports as present
C7_Witness ==
    /\ call.op = "GetValue" /\ call.obj \in RecordObjs
    /\ call.fieldName = "password" /\ Declared(call.obj, "password") # {}
    /\ ret.err = ErrUnexportedField /\ ret.value = NilValue
    /\ Has(call.obj, "password").found

\* what Names must have returned as r for the struct variable o
C8_NamesOk(o, r) ==
    /\ r.err = NoErr
    /\ Len(r.names) = Len(VisibleDecls(o))
    /\ \A k \in 1..Len(r.names) : r.names[k] = VisibleDecls(o)[k].Name
    /\ \A k, l \in 1..Len(r.names) : r.names[k] = r.names[l] => k = l
    /\ \A i \in 1..Len(Decls(o)) :
          ~Visible(Decls(o)[i]) => \A k \in 1..Len(r.names) : r.names[k] # Decls(o)[i].Name
    /\ Len(r.names) = Cardinality(DOMAIN Values(o).map)

\* C8: Names(R) returns no error and the names of the visible fields R's type
\* declares, each once, in declaration order, and no hidden field's name; it
\* is as long as Values(R) has keys.
C8_Names ==
    (call.op = "Names" /\ call.obj \in RecordObjs) => C8_NamesOk(call.obj, ret)

\* Names of a User: Username, Age, and not password
C8_Witness ==
    /\ call.op = "Names" /\ call.obj \in RecordObjs
    /\ heap[call.obj.addr].t = "User"
    /\ ret.names = << "Username", "Age" >>

\* what Values must have returned as r for the struct variable o
C9_ValuesOk(o, r) ==
    /\ r.err = NoErr
    /\ DOMAIN r.map = VisibleNames(o)
    /\ \A i \in 1..Len(Decls(o)) :
          Visible(Decls(o)[i]) => r.map[Decls(o)[i].Name] = heap[o.addr].f[i]
    /\ \A i \in 1..Len(Decls(o)) :
          ~Visible(Decls(o)[i]) => Decls(o)[i].Name \notin DOMAIN r.map
    /\ \A n \in DOMAIN r.map : \E i \in 1..Len(Decls(o)) :
          Visible(Decls(o)[i]) /\ r.map[n] = heap[o.addr].f[i]

\* C9: Values(R) returns no error and a map whose keys are exactly the names
\* of the visible fields R's type declares, each mapped to the value the field
\* holds in R when the call is made; a hidden field contributes no key and
\* no value.
C9_Values ==
    (call.op = "Values" /\ call.obj \in RecordObjs) => C9_ValuesOk(call.obj, ret)

\* Values of a User whose Age a write has changed to 40
C9_Witness ==
    /\ call.op = "Values" /\ call.obj \in RecordObjs
    /\ heap[call.obj.addr].t = "User"
    /\ DOMAIN ret.map = {"Username", "Age"}
    /\ ret.map["Age"] = Scalar("int", "40")

\* does the field declaration carry an annotation for key, and which
HasAnnotation(d, key) == \E k \in 1..Len(d.Tag) : d.Tag[k][1] = key

Annotation(d, key) ==
    d.Tag[CHOOSE k \in 1..Len(d.Tag) :
            d.Tag[k][1] = key /\ \A l \in 1..(k - 1) : d.Tag[l][1] # key][2]

\* what Tags must have returned as r for the struct variable o and the key
C10_TagsOk(o, key, r) ==
    /\ r.err = NoErr
    /\ DOMAIN r.map = VisibleNames(o)
    /\ \A i \in 1..Len(Decls(o)) :
          LET d == Decls(o)[i]
          IN  IF Visible(d)
              THEN /\ d.Name \in DOMAIN r.map
                   /\ r.map[d.Name] = IF HasAnnotation(d, key) THEN Annotation(d, key) ELSE ""
              ELSE d.Name \notin DOMAIN r.map

\* C10: Tags(R, key) returns no error and a map with every visible field name
\* of R and no hidden one; a visible field without an annotation for key is
\* present and maps to "", one with an annotation maps to its value.
C10_Tags ==
    (call.op = "Tags" /\ call.obj \in RecordObjs) => C10_TagsOk(call.obj, call.tagKey, ret)

\* Tags of a User for db: Username has the annotation, Age has none
C10_Witness ==
    /\ call.op = "Tags" /\ call.obj \in RecordObjs /\ call.tagKey = "db"
    /\ heap[call.obj.addr].t = "User"
    /\ ret.map = ("Username" :> "uname") @@ ("Age" :> "")


\* what GetTag must have returned as r for the name and key on the struct
\* variable o
C11_GetTagOk(o, name, key, r) ==
    /\ \A i \in Declared(o, name) :
          LET d == Decls(o)[i]
          IN  IF Visible(d)
              THEN r = [NoRet EXCEPT !.str = IF HasAnnotation(d, key)
                                             THEN Annotation(d, key) ELSE ""]
              ELSE r = Fail(ErrUnexportedField)
    /\ name \notin NamesWithin(heap[o.addr].t) => r = Fail(ErrNoField)

C11_WitnessHidden ==
    /\ call.op = "GetTag" /\ call.obj \in RecordObjs
    /\ call.fieldName = "password" /\ Declared(call.obj, "password") # {}
    /\ ret.err = ErrUnexportedField

C11_WitnessNoField ==
    /\ call.op = "GetTag" /\ call.obj \in RecordObjs
    /\ call.fieldName \notin NamesWithin(heap[call.obj.addr].t)
    /\ ret.err = ErrNoField

\* what GetKind must have returned as r for the name on the struct variable o
C12_GetKindOk(o, name, r) ==
    /\ \A i \in Declared(o, name) :
          LET d == Decls(o)[i]
          IN  IF Visible(d)
              THEN r = [NoRet EXCEPT !.str = TypeKind(d.Type)]
              ELSE r = Fail(ErrUnexportedField)
    /\ name \notin NamesWithin(heap[o.addr].t) => r = Fail(ErrNoField)

\* what Kinds must have returned as r for the struct variable o
C12_KindsOk(o, r) ==
    /\ r.err = NoErr
    /\ DOMAIN r.map = VisibleNames(o)
    /\ \A i \in 1..Len(Decls(o)) :
          Visible(Decls(o)[i]) => r.map[Decls(o)[i].Name] = TypeKind(Decls(o)[i].Type)

ReadOps == {"GetValue", "Has", "Names", "Values", "GetTag", "Tags", "GetKind", "Kinds"}

\* the inputs that are neither a struct nor a pointer to a struct: an int, a
\* slice, nil, a nil pointer, a pointer to an int, a pointer to a pointer to a
\* struct
NonRecordObjs ==
    { o \in Objs : o.kind \in {"Int", "Slice", "Nil", "NilPtr", "PtrInt", "PtrPtr"} }

\* C13: every read operation (GetValue, Has, Names, Values, GetTag, Tags,
\* GetKind, Kinds) fails with ErrNotStruct, and returns nothing else, when the
\* input is a primitive, a collection, nil, a nil pointer, a pointer to a
\* non-struct or a pointer to a pointer to a struct: only one level of pointer
\* is followed.
C13_NotStruct ==
    (call.op \in ReadOps /\ call.obj \in NonRecordObjs) => ret = Fail(ErrNotStruct)

\* GetValue of a field of User through a pointer to a pointer to a User
C13_Witness ==
    /\ call.op = "GetValue" /\ call.obj.kind = "PtrPtr" /\ call.fieldName = "Username"
    /\ ret = Fail(ErrNotStruct)

\* Names of a slice
C13_WitnessSlice ==
    /\ call.op = "Names" /\ call.obj.kind = "Slice"
    /\ ret = Fail(ErrNotStruct)


Errors == {ErrNotStruct, ErrNotPtr, ErrNoField, ErrUnexportedField, ErrMismatchValue}

\* C14: no operation panics: whatever the input, the field name, the tag key
\* and the new value, each of the nine operations returns a result or one of
\* the five errors.
C14_NoPanic == call # NoCall => ret.err \in {NoErr} \cup Errors

\* the calls that do panic: GetValue, GetKind and SetValue reach a field
\* promoted from an embedded *Inner through Value.FieldByName, which panics
\* when that pointer is nil
C14_PanicOnlyThroughNilEmbedded ==
    (call # NoCall /\ ret.err = Panic) =>
        /\ call.op \in {"GetValue", "GetKind", "SetValue"}
        /\ call.obj \in RecordObjs
        /\ old[call.obj.addr].t = "Node"
        /\ old[call.obj.addr].f[1] = NilPtr("*Inner")
        /\ call.fieldName \in {"ID", "secret"}

C14_WitnessPanic ==
    /\ call.op = "GetValue" /\ call.obj.kind = "Struct" /\ call.fieldName = "ID"
    /\ ret.err = Panic


\* the struct value x of type t with the field called name, its own or one
\* promoted from an embedded struct, holding new and all else as it was
RECURSIVE WithField(_, _, _, _)
WithField(x, t, name, new) ==
    LET own == { i \in 1..Len(StructFields(t)) : StructFields(t)[i].Name = name }
        through == { i \in 1..Len(StructFields(t)) :
                       /\ EmbeddedStruct(StructFields(t)[i]) # "nil"
                       /\ name \in NamesWithin(EmbeddedStruct(StructFields(t)[i])) }
    IN  IF own # {} THEN [x EXCEPT !.f[CHOOSE i \in own : TRUE] = new]
        ELSE IF through = {} THEN x
        ELSE LET j == CHOOSE i \in through : TRUE
                 e == EmbeddedStruct(StructFields(t)[j])
             IN  IF TypeKind(StructFields(t)[j].Type) = "ptr"
                 THEN [x EXCEPT !.f[j].f[1] = WithField(@, e, name, new)]
                 ELSE [x EXCEPT !.f[j] = WithField(@, e, name, new)]

\* C15: frame of a successful write.  After SetValue(&R, F, V) has returned no
\* error, R read through the caller's own variable holds V in F, every other
\* field of R, visible or hidden, holds the value it held before, and every
\* other record is as it was.
C15_Frame ==
    (call.op = "SetValue" /\ call.obj.kind = "Ptr" /\ ret.err = NoErr) =>
        LET a == call.obj.addr
        IN  /\ GetValue([kind |-> "Struct", addr |-> a], call.fieldName) = Ok(call.newValue)
            /\ heap[a] = WithField(old[a], old[a].t, call.fieldName, call.newValue)
            /\ \A i \in Declared(call.obj, call.fieldName) :
                  /\ heap[a].f[i] = call.newValue
                  /\ \A j \in 1..Len(Decls(call.obj)) \ {i} : heap[a].f[j] = old[a].f[j]
            /\ \A b \in Addr \ {a} : heap[b] = old[b]

\* Age of one User set from 30 to 40 while the other record is a User too
C15_Witness ==
    /\ call.op = "SetValue" /\ call.obj.kind = "Ptr" /\ ret.err = NoErr
    /\ call.fieldName = "Age" /\ call.newValue = Scalar("int", "40")
    /\ old[call.obj.addr].t = "User" /\ old[call.obj.addr].f[2] = Scalar("int", "30")
    /\ \E b \in Addr \ {call.obj.addr} : old[b].t = "User" /\ old[b].f[2] = Scalar("int", "30")

\* ID, promoted from the embedded Inner of a Profile, set from 30 to 40
C15_WitnessPromoted ==
    /\ call.op = "SetValue" /\ call.obj.kind = "Ptr" /\ ret.err = NoErr
    /\ call.fieldName = "ID" /\ call.newValue = Scalar("int", "40")
    /\ old[call.obj.addr].t = "Profile"
    /\ old[call.obj.addr].f[1].f[1] = Scalar("int", "30")


\* C16: idempotence of write.  SetValue(&R, F, V) on a visible field F declared
\* by R's type, with V of F's declared type and equal to the value F holds,
\* returns no error and leaves every record as it was; and after any SetValue
\* that returned no error, the same call once more returns no error and
\* leaves the state the first one left.
C16_Idempotent ==
    (call.op = "SetValue" /\ call.obj.kind = "Ptr") =>
        /\ \A i \in Declared(call.obj, call.fieldName) :
              ( /\ Visible(Decls(call.obj)[i])
                /\ TypeOf(call.newValue) = Decls(call.obj)[i].Type
                /\ call.newValue = old[call.obj.addr].f[i] )
              => (ret.err = NoErr /\ heap = old)
        /\ ret.err = NoErr =>
              SetValue(call.obj, call.fieldName, call.newValue) = [err |-> NoErr, heap |-> heap]

\* Username of a User set to the name it holds
C16_Witness ==
    /\ call.op = "SetValue" /\ call.obj.kind = "Ptr" /\ ret.err = NoErr
    /\ call.fieldName = "Username" /\ call.newValue = Scalar("string", "srathi")
    /\ old[call.obj.addr].t = "User" /\ old[call.obj.addr].f[1] = Scalar("string", "srathi")
    /\ heap = old

\* a write that changed the record, which the same write leaves alone
C16_WitnessRepeat ==
    /\ call.op = "SetValue" /\ call.obj.kind = "Ptr" /\ ret.err = NoErr
    /\ heap # old
    /\ SetValue(call.obj, call.fieldName, call.newValue).heap = heap

C18_WitnessPtrInt ==
    /\ call.op = "SetValue" /\ call.obj.kind = "PtrInt"
    /\ ret = Fail(ErrNotStruct)


EnumOps == {"Names", "Values", "Tags", "Kinds"}

\* what an enumeration must have returned as r for the input o: no error for
\* a struct or a pointer to a struct, with nothing in it when the struct has
\* no exported field, and for every other input ErrNotStruct and nothing else
C19_EnumOk(o, r) ==
    /\ o.kind \in {"Struct", "Ptr", "Sealed"} => r.err = NoErr
    /\ o.kind = "Sealed" => r = NoRet
    /\ o.kind \notin {"Struct", "Ptr", "Sealed"} => r = Fail(ErrNotStruct)
    /\ (r.err # NoErr) <=> (getReflectValue(o).err # NoErr)

\* C19: Names, Values, Tags and Kinds fail exactly when normalizing the input
\* fails, then with ErrNotStruct and an empty result; on a struct or a
\* pointer to a struct they return no error, and an empty list or map when
\* the struct has no visible field.
C19_Enumerations ==
    call.op \in EnumOps => C19_EnumOk(call.obj, ret)

\* Kinds of a struct whose only field is hidden
C19_Witness ==
    /\ call.op = "Kinds" /\ call.obj.kind = "Sealed"
    /\ ret.err = NoErr /\ ret.map = << >>

\* Values of nil
C19_WitnessFail ==
    /\ call.op = "Values" /\ call.obj.kind = "Nil"
    /\ ret = Fail(ErrNotStruct)


\* the member of x at path
RECURSIVE ReadAt(_, _)
ReadAt(x, path) == IF path = << >> THEN x ELSE ReadAt(x.f[Head(path)], Tail(path))

\* what the caller reads in an entry x of a map it kept: the entry, or for
\* an entry that is a field of a record what that field holds now
Seen(x) == IF x.t = "ref" THEN ReadAt(heap[Head(x.f)], Tail(x.f)) ELSE x

\* a value without what it points to: a copy of a pointer is the same
\* pointer whatever the pointee holds
Shallow(x) == IF x.v = "ptr" THEN [x EXCEPT !.f = << >>] ELSE x

\* C20: Values returns a snapshot.  A map M kept from Values(&R) has, after
\* any number of later SetValue calls on R, the visible field names of R as
\* keys and for each the value the field held when Values was called; after
\* a later SetValue(&R, F, V2) that returned no error, M[F] is still that
\* value while a fresh Values(&R) maps F to V2.
C20_Snapshot ==
    snap # NoSnap =>
        LET decls == StructFields(snap.at.t)
            visible == { i \in 1..Len(decls) : Visible(decls[i]) }
        IN  /\ DOMAIN snap.map = { decls[i].Name : i \in visible }
            /\ \A i \in visible :
                  Shallow(Seen(snap.map[decls[i].Name])) = Shallow(snap.at.f[i])
            /\ (call.op = "SetValue" /\ ret.err = NoErr) =>
                  \A i \in Declared(call.obj, call.fieldName) :
                      /\ Shallow(Seen(snap.map[call.fieldName])) = Shallow(snap.at.f[i])
                      /\ Values(call.obj).map[call.fieldName] = call.newValue
            /\ call.op = "Values" =>
                  \A i \in visible : ret.map[decls[i].Name] = heap[snap.addr].f[i]

\* a map kept while Age was 30, after SetValue has made Age 40
C20_Witness ==
    /\ snap # NoSnap /\ snap.at.t = "User"
    /\ call.op = "SetValue" /\ call.fieldName = "Age" /\ ret.err = NoErr
    /\ call.newValue = Scalar("int", "40")
    /\ snap.map["Age"] = Scalar("int", "30")
    /\ Values(call.obj).map["Age"] = Scalar("int", "40")

\* a fresh Values after the record has changed since the map was kept
C20_WitnessFresh ==
    /\ snap # NoSnap /\ snap.at.t = "User"
    /\ call.op = "Values"
    /\ snap.map["Age"] = Scalar("int", "30")
    /\ ret.map["Age"] = Scalar("int", "40")


\* what the read made last returns when it is made once more, now
Again ==
    CASE call.op = "GetValue" -> GetValue(call.obj, call.fieldName)
      [] call.op = "Has" -> Has(call.obj, call.fieldName)
      [] call.op = "Names" -> Names(call.obj)
      [] call.op = "Values" -> Values(call.obj)
      [] call.op = "GetTag" -> GetTag(call.obj, call.fieldName, call.tagKey)
      [] call.op = "Tags" -> Tags(call.obj, call.tagKey)
      [] call.op = "GetKind" -> GetKind(call.obj, call.fieldName)
      [] call.op = "Kinds" -> Kinds(call.obj)
      [] OTHER -> NoRet

\* C21: every operation other than a SetValue that returned no error leaves
\* every field of every record as it was, and the same call made again
\* through the same pointer to the unchanged record has the same outcome and
\* leaves the records as they are.
C21_NoSideEffect ==
    (call # NoCall /\ ~(call.op = "SetValue" /\ ret.err = NoErr)) =>
        /\ heap = old
        /\ call.obj.kind = "Ptr" =>
              IF call.op = "SetValue"
              THEN SetValue(call.obj, call.fieldName, call.newValue)
                       = [err |-> ret.err, heap |-> heap]
              ELSE Again = ret

\* a SetValue turned down for a hidden field of the right type
C21_Witness ==
    /\ call.op = "SetValue" /\ call.obj.kind = "Ptr"
    /\ call.fieldName = "password" /\ call.newValue = Scalar("string", "new-srathi")
    /\ Declared(call.obj, "password") # {}
    /\ ret = Fail(ErrUnexportedField)
    /\ heap = old

\* a GetValue after the record has been written to
C21_WitnessRead ==
    /\ call.op = "GetValue" /\ call.obj.kind = "Ptr" /\ call.fieldName = "Age"
    /\ ret = Ok(Scalar("int", "40"))


\* what the operations that read declarations return for the struct variable o
DeclarationResults(o) ==
    << Names(o).err, Names(o).names, Kinds(o).err, Kinds(o).map,
       [key \in TagKeys |-> << Tags(o, key).err, Tags(o, key).map >>],
       [name \in FieldNames |->
           << Has(o, name).err, Has(o, name).found,
              GetKind(o, name).err, GetKind(o, name).str >>],
       [name \in FieldNames |->
           [key \in TagKeys |-> << GetTag(o, name, key).err, GetTag(o, name, key).str >>]] >>

-----------------------------------------------------------------------------
\* A caller that notes, before it writes anything, what Names, Kinds, Tags,
\* Has, GetKind and GetTag return for each of its struct variables, and then
\* writes to them with SetValue.

DeclInit ==
    /\ heap \in [Addr -> InitialStructs]
    /\ old = heap
    /\ call = NoCall
    /\ ret = NoRet
    /\ snap = NoSnap
    /\ decl0 = [o \in RecordObjs |-> DeclarationResults(o)]

MutateRecord ==
    /\ call = NoCall
    /\ \E a \in Addr, fieldName \in FieldNames, newValue \in NewValues :
          LET obj == [kind |-> "Ptr", addr |-> a]
              r == SetValue(obj, fieldName, newValue)
          IN  /\ call' = Call("SetValue", obj, fieldName, newValue, "")
              /\ ret' = Fail(r.err)
              /\ heap' = r.heap
    /\ old' = heap
    /\ UNCHANGED <<snap, decl0>>

DeclNext ==
    \/ MutateRecord
    \/ Return

DeclSpec == DeclInit /\ [][DeclNext]_vars

C23_BulkAgrees ==
    (call.op = "Names" /\ call.obj.kind \in {"Struct", "Ptr", "Sealed"}) =>
        LET o == call.obj
            names == { ret.names[i] : i \in 1..Len(ret.names) }
        IN  /\ ret.err = NoErr
            /\ Values(o).err = NoErr /\ DOMAIN Values(o).map = names
            /\ Kinds(o).err = NoErr /\ DOMAIN Kinds(o).map = names
            /\ \A k \in TagKeys :
                  Tags(o, k).err = NoErr /\ DOMAIN Tags(o, k).map = names
            /\ \A F \in names :
                  /\ GetValue(o, F) = Ok(Values(o).map[F])
                  /\ GetKind(o, F) = [NoRet EXCEPT !.str = Kinds(o).map[F]]
                  /\ \A k \in TagKeys :
                        GetTag(o, F, k) = [NoRet EXCEPT !.str = Tags(o, k).map[F]]

\* Names of a Node, whose fields are an embedded pointer and an interface
C23_Witness ==
    /\ call.op = "Names" /\ call.obj.kind = "Ptr"
    /\ heap[call.obj.addr].t = "Node"
    /\ heap[call.obj.addr].f[2] = Scalar("int", "30")
    /\ ret.names = << "Inner", "Data" >>


\* C24: the three single-field readers resolve and filter alike.  For every
\* struct or pointer to a struct R, embedded members included, every name F
\* and every key k, GetValue(R, F), GetKind(R, F) and GetTag(R, F, k) all
\* return no error or all return the same error, ErrNoField or
\* ErrUnexportedField.
C24_ReadersAgree ==
    (call.op = "GetValue" /\ call.obj.kind \in {"Struct", "Ptr", "Sealed"}) =>
        /\ ret.err \in {NoErr, ErrNoField, ErrUnexportedField}
        /\ GetKind(call.obj, call.fieldName).err = ret.err
        /\ \A k \in TagKeys : GetTag(call.obj, call.fieldName, k).err = ret.err

\* where the readers part: GetValue and GetKind panic on a name promoted
\* from a nil embedded pointer while GetTag, which reads the type only,
\* returns the tag; on every other input the three agree
C24_AgreeUnlessPanic ==
    (call.op = "GetValue" /\ call.obj.kind \in {"Struct", "Ptr", "Sealed"}) =>
        /\ GetKind(call.obj, call.fieldName).err = ret.err
        /\ IF ret.err = Panic
           THEN \A k \in TagKeys : GetTag(call.obj, call.fieldName, k).err
                                       \in {NoErr, ErrUnexportedField}
           ELSE \A k \in TagKeys : GetTag(call.obj, call.fieldName, k).err = ret.err

\* GetValue of Rev, promoted from the hidden embedded meta of a Profile: all
\* three readers return no error
C24_WitnessPromoted ==
    /\ call.op = "GetValue" /\ call.obj.kind = "Struct" /\ call.fieldName = "Rev"
    /\ heap[call.obj.addr].t = "Profile"
    /\ ret.err = NoErr
    /\ GetTag(call.obj, "Rev", "json") = [NoRet EXCEPT !.str = "rev"]


\* the names Names returns for o, as a set
NameSet(o) == { Names(o).names[i] : i \in 1..Len(Names(o).names) }

\* C25: name resolution and enumeration cover the same fields.  For every
\* struct or pointer to a struct R, embedded members included, and every name
\* F, GetValue(R, F) returns no error exactly when F is in Names(R), and
\* Has(R, F) is true exactly when R's type itself declares a field F, visible
\* or hidden.
C25_SameFields ==
    (call.op = "GetValue" /\ call.obj \in RecordObjs) =>
        /\ ret.err = NoErr <=> call.fieldName \in NameSet(call.obj)
        /\ Has(call.obj, call.fieldName).found <=> Declared(call.obj, call.fieldName) # {}

\* what does hold: the names of Names(R) are read by GetValue and the fields
\* R's type declares are found by Has, and for a struct type that embeds
\* nothing the converse holds too; GetValue and Has also take the names
\* promoted from embedded structs, which Names leaves out
C25_EnumeratedAreResolved ==
    (call.op = "GetValue" /\ call.obj \in RecordObjs) =>
        /\ call.fieldName \in NameSet(call.obj) => ret.err = NoErr
        /\ Declared(call.obj, call.fieldName) # {} => Has(call.obj, call.fieldName).found
        /\ Has(call.obj, call.fieldName).found
              <=> call.fieldName \in NamesWithin(heap[call.obj.addr].t)
        /\ heap[call.obj.addr].t = "User" =>
              /\ ret.err = NoErr <=> call.fieldName \in NameSet(call.obj)
              /\ Has(call.obj, call.fieldName).found
                    <=> Declared(call.obj, call.fieldName) # {}

\* GetValue of ID on a Profile: read through the embedded Inner, found by
\* Has, and not among the names of the Profile
C25_WitnessPromoted ==
    /\ call.op = "GetValue" /\ call.obj.kind = "Struct" /\ call.fieldName = "ID"
    /\ heap[call.obj.addr].t = "Profile"
    /\ ret = Ok(Scalar("int", "30"))
    /\ Has(call.obj, "ID").found
    /\ NameSet(call.obj) = {"Inner", "Score"}

====
